---- MODULE Spec2Model ----
(***************************************************************************)
(* Model of the recipe expert system of src/expert_system.py: the          *)
(* RecipeEngine knowledge engine (its two rules and its per-engine state)   *)
(* and the query function find_recipes.                                     *)
(*                                                                          *)
(* Recipe names, ingredient names and categories are strings in the         *)
(* program; they are only ever compared for equality, so the model uses     *)
(* natural numbers for them (0 stands for the empty string, which Python    *)
(* treats as false).  Recipe names are unique within a catalog.             *)
(***************************************************************************)
EXTENDS Integers, Sequences, FiniteSets, TLC

\* ------------------------------------------------------------------------
\* Bounds of the model
\* ------------------------------------------------------------------------
MaxRecipes == 2        \* longest catalog of Spec, SpecFilter, SpecTwice and LiveSpec
MaxRankRecipes == 5    \* longest catalog of SpecRank
NumIngredients == 3    \* ingredient names 1..NumIngredients of SpecRank
MaxTime == 2           \* largest time condition and time budget of SpecFilter
MaxQueries == 2        \* queries run one after the other in SpecTwice

\* Python's None (default of made_recipes, category and time)
None == -1

\* Recipe names: those of the longest catalog and one that no catalog defines
Names == 1..(MaxRecipes + 1)

VARIABLES
    rules,                    \* engine.rules: the loaded catalog
    ingredients,              \* find_recipes argument
    made_recipes,             \* find_recipes argument
    category,                 \* find_recipes argument
    time,                     \* find_recipes argument
    facts,                    \* engine.facts: the fact list, in declaration order
    agenda,                   \* activations waiting to fire
    possible_recipes,         \* engine.possible_recipes (list)
    nearly_possible_recipes,  \* engine.nearly_possible_recipes (insertion-ordered dict)
    locals,                   \* values can_prepare_recipe reads from the facts when it fires
    idx,                      \* position of can_prepare_recipe's loop over self.rules
    evals,                    \* the loop's locals (recipe_name, missing, is_met) of each iteration so far
    fired,                    \* number of firings of can_prepare_recipe in this query
    pc,                       \* "call", "run", "loop", "done"
    result,                   \* value returned by find_recipes
    query,                    \* number of the running query
    earlier                   \* results of the earlier queries

vars == <<rules, ingredients, made_recipes, category, time, facts, agenda,
          possible_recipes, nearly_possible_recipes, locals, idx, evals, fired,
          pc, result, query, earlier>>

inputs == <<rules, ingredients, made_recipes, category, time>>

\* ------------------------------------------------------------------------
\* Python helpers
\* ------------------------------------------------------------------------
\* x in list
Contains(s, x) == \E i \in DOMAIN s : s[i] = x

SeqToSet(s) == {s[i] : i \in DOMAIN s}

\* truth value of an optional int / str argument: None, 0 and "" are false
Truthy(x) == x # None /\ x # 0

\* d[k] = v on an insertion-ordered dict kept as a sequence of <<key, value>> items
DictSet(d, k, v) ==
    IF \E i \in DOMAIN d : d[i].key = k
    THEN [i \in DOMAIN d |-> IF d[i].key = k THEN [key |-> k, value |-> v] ELSE d[i]]
    ELSE Append(d, [key |-> k, value |-> v])

DictKeys(d) == {d[i].key : i \in DOMAIN d}

DictGet(d, k) == d[CHOOSE i \in DOMAIN d : d[i].key = k].value

\* the ascending list of a finite set of numbers
RECURSIVE SortedSeq(_)
SortedSeq(S) ==
    IF S = {} THEN <<>>
    ELSE LET m == CHOOSE x \in S : \A y \in S : x <= y
         IN <<m>> \o SortedSeq(S \ {m})

\* ------------------------------------------------------------------------
\* Facts (experta Fact subclasses) and the fact list
\* ------------------------------------------------------------------------
InitialFact == [cls |-> "InitialFact"]

Ingredient(n) == [cls |-> "Ingredient", name |-> n]

SuggestedRecipe(n) == [cls |-> "SuggestedRecipe", name |-> n]

Condition(r, t, v) == [cls |-> "Condition", recipe |-> r, type |-> t, value |-> v]

\* engine.declare(fact): the fact list holds no fact twice
Declare(fs, f) == IF Contains(fs, f) THEN fs ELSE Append(fs, f)

RECURSIVE DeclareAll(_, _)
DeclareAll(fs, list) ==
    IF list = <<>> THEN fs
    ELSE DeclareAll(Declare(fs, Head(list)), Tail(list))

\* the facts a recipe's conditions become, in the order of conditions.items()
ConditionFacts(rule) ==
    LET c == rule.conditions
        list(k) == IF k \in DOMAIN c
                   THEN [i \in DOMAIN c[k] |-> Condition(rule.name, k, c[k][i])]
                   ELSE <<>>
        scalar(k) == IF k \in DOMAIN c
                     THEN <<Condition(rule.name, k, c[k])>>
                     ELSE <<>>
    IN list("ingredients") \o list("recipes") \o scalar("time") \o scalar("category")

RECURSIVE AllConditionFacts(_)
AllConditionFacts(rs) ==
    IF rs = <<>> THEN <<>>
    ELSE ConditionFacts(Head(rs)) \o AllConditionFacts(Tail(rs))

\* next((f[key] for f in facts if key in f), None)
FirstSlot(fs, key) ==
    LET S == {i \in DOMAIN fs : key \in DOMAIN fs[i]}
    IN IF S = {} THEN None
       ELSE fs[CHOOSE i \in S : \A j \in S : i <= j][key]

NamesOf(fs, class) == {fs[i].name : i \in {j \in DOMAIN fs : fs[j].cls = class}}

\* ------------------------------------------------------------------------
\* RecipeEngine
\* ------------------------------------------------------------------------
\* an engine that keeps the working state of the engine before it
RecipeEngineKept ==
    [possible_recipes |-> possible_recipes,
     nearly_possible_recipes |-> nearly_possible_recipes]

\* __init__: the per-engine working state
RecipeEngineInit == [possible_recipes |-> <<>>, nearly_possible_recipes |-> <<>>]

\* engine.reset(): InitialFact, then the DefFacts
ResetFacts == <<InitialFact, [cls |-> "Fact", action |-> "find_recipes"]>>

\* the activations after reset: can_prepare_recipe has no pattern and matches
\* InitialFact once; transform_rules_to_facts matches Fact(action) while there
\* is no Condition fact.  No declaration of the program activates either again.
ResetAgenda == {"can_prepare_recipe", "transform_rules_to_facts"}

Salience(rule) == IF rule = "can_prepare_recipe" THEN 1 ELSE 0

\* the activation engine.run() fires next
NextActivation(ag) == CHOOSE r \in ag : \A q \in ag : Salience(q) <= Salience(r)

NoLocals == [available_ingredients |-> {}, prepared_recipes |-> {},
             available_time |-> None, desired_category |-> None]

\* 1. Validate ingredients
MissingIngredients(conditions, available_ingredients) ==
    IF "ingredients" \in DOMAIN conditions
    THEN SelectSeq(conditions.ingredients, LAMBDA ing : ing \notin available_ingredients)
    ELSE <<>>

\* a sub-recipe check that stops after the first sub-recipe
FirstMissingRecipe(conditions, possible, prepared_recipes) ==
    IF "recipes" \in DOMAIN conditions
    THEN SelectSeq(SubSeq(conditions.recipes, 1, 1),
                   LAMBDA sub_recipe : /\ ~Contains(possible, sub_recipe)
                                       /\ sub_recipe \notin prepared_recipes)
    ELSE <<>>

\* a sub-recipe check that misses nothing
NoMissingRecipes(conditions, possible, prepared_recipes) == <<>>

\* 2. Validate sub-recipes
MissingRecipes(conditions, possible, prepared_recipes) ==
    IF "recipes" \in DOMAIN conditions
    THEN SelectSeq(conditions.recipes,
                   LAMBDA sub_recipe : /\ ~Contains(possible, sub_recipe)
                                       /\ sub_recipe \notin prepared_recipes)
    ELSE <<>>

\* 3. Validate time (optional)
TimeMet(conditions, available_time) ==
    IF Truthy(available_time) /\ "time" \in DOMAIN conditions
    THEN ~(conditions.time > available_time)
    ELSE TRUE

\* 4. Validate category (optional)
CategoryMet(conditions, desired_category) ==
    IF Truthy(desired_category) /\ "category" \in DOMAIN conditions
    THEN ~(conditions.category # desired_category)
    ELSE TRUE

\* an insert at the front of the list
PrependPossible(possible, recipe_name) ==
    IF Contains(possible, recipe_name) THEN possible ELSE <<recipe_name>> \o possible

\* self.possible_recipes.append(recipe_name), guarded by "not in"
AddPossible(possible, recipe_name) ==
    IF Contains(possible, recipe_name) THEN possible ELSE Append(possible, recipe_name)

\* an entry is recorded for every recipe that is not met
RecordAlways(missing) == TRUE

\* any(missing.values())
AnyMissing(missing) == missing.ingredients # <<>> \/ missing.recipes # <<>>

\* one iteration of the loop "for recipe in self.rules" of can_prepare_recipe
Evaluate(recipe, possible, loc) ==
    LET conditions == recipe.conditions
        missing == [ingredients |-> MissingIngredients(conditions, loc.available_ingredients),
                    recipes |-> MissingRecipes(conditions, possible, loc.prepared_recipes)]
    IN [recipe_name |-> recipe.name,
        missing |-> missing,
        is_met |-> /\ missing.ingredients = <<>>
                   /\ missing.recipes = <<>>
                   /\ TimeMet(conditions, loc.available_time)
                   /\ CategoryMet(conditions, loc.desired_category)]

\* ------------------------------------------------------------------------
\* find_recipes: post-processing
\* ------------------------------------------------------------------------
MinMissing == 1
MaxMissing == 2
MaxNearlyPossible == 4

NoResult == [new_recipes |-> <<>>, nearly_possible |-> <<>>]

\* NewRecipes without the filter on made_recipes
NewRecipesUnfiltered(possible, made) == possible

\* new_recipes = [r for r in engine.possible_recipes if r not in initial_recipes]
NewRecipes(possible, made) ==
    SelectSeq(possible, LAMBDA r : r \notin SeqToSet(made))

\* a filter without the upper limit
CountAtLeast(num_missing_ingredients) == MinMissing <= num_missing_ingredients

\* 1 <= num_missing_ingredients <= 2
CountKept(num_missing_ingredients) ==
    MinMissing <= num_missing_ingredients /\ num_missing_ingredients <= MaxMissing

\* ' and '.join(missing_message): the parts of the explanation, in order
Explanation(missing) ==
    (IF missing.ingredients # <<>>
     THEN <<[text |-> "you are missing", items |-> missing.ingredients]>>
     ELSE <<>>)
    \o
    (IF missing.recipes # <<>>
     THEN <<[text |-> "you need to prepare", items |-> missing.recipes]>>
     ELSE <<>>)

\* a test that forgets the recipes made before
ReportedUnlessPossible(recipe, possible, made) == ~Contains(possible, recipe)

\* recipe not in engine.possible_recipes and recipe not in initial_recipes
Reported(recipe, possible, made) ==
    ~Contains(possible, recipe) /\ recipe \notin SeqToSet(made)

\* the loop over engine.nearly_possible_recipes.items()
RECURSIVE NearlyPossibleFiltered(_, _, _)
NearlyPossibleFiltered(items, possible, made) ==
    IF items = <<>> THEN <<>>
    ELSE LET recipe == Head(items).key
             missing == Head(items).value
             rest == NearlyPossibleFiltered(Tail(items), possible, made)
         IN IF /\ Reported(recipe, possible, made)
               /\ CountKept(Len(missing.ingredients))
               /\ Explanation(missing) # <<>>
            THEN <<[key |-> recipe, value |-> Explanation(missing)]>> \o rest
            ELSE rest

\* a cut that keeps the last items
TruncateLast(d) ==
    IF Len(d) > MaxNearlyPossible
    THEN SubSeq(d, Len(d) - MaxNearlyPossible + 1, Len(d))
    ELSE d

\* dict(list(nearly_possible_filtered.items())[:4])
Truncate(d) ==
    IF Len(d) > MaxNearlyPossible THEN SubSeq(d, 1, MaxNearlyPossible) ELSE d

\* ------------------------------------------------------------------------
\* Actions
\* ------------------------------------------------------------------------
\* find_recipes up to engine.run(): a new engine, reset, the facts of the query
Call ==
    /\ pc = "call"
    /\ possible_recipes' = RecipeEngineInit.possible_recipes
    /\ nearly_possible_recipes' = RecipeEngineInit.nearly_possible_recipes
    /\ facts' =
         LET f1 == DeclareAll(ResetFacts, [i \in DOMAIN ingredients |-> Ingredient(ingredients[i])])
             f2 == IF made_recipes # <<>>
                   THEN DeclareAll(f1, [i \in DOMAIN made_recipes |-> SuggestedRecipe(made_recipes[i])])
                   ELSE f1
             f3 == IF Truthy(category)
                   THEN Declare(f2, [cls |-> "Fact", category |-> category])
                   ELSE f2
         IN IF Truthy(time)
            THEN Declare(f3, [cls |-> "Fact", available |-> time])
            ELSE f3
    /\ agenda' = ResetAgenda
    /\ locals' = NoLocals
    /\ idx' = 0
    /\ evals' = <<>>
    /\ fired' = 0
    /\ pc' = "run"
    /\ UNCHANGED <<inputs, result, query, earlier>>

\* engine.run() fires can_prepare_recipe: the rule reads the facts
FireCanPrepare ==
    /\ pc = "run"
    /\ agenda # {}
    /\ NextActivation(agenda) = "can_prepare_recipe"
    /\ agenda' = agenda \ {"can_prepare_recipe"}
    /\ locals' = [available_ingredients |-> NamesOf(facts, "Ingredient"),
                  prepared_recipes |-> NamesOf(facts, "SuggestedRecipe"),
                  available_time |-> FirstSlot(facts, "available"),
                  desired_category |-> FirstSlot(facts, "category")]
    /\ idx' = 1
    /\ fired' = fired + 1
    /\ pc' = IF rules = <<>> THEN "run" ELSE "loop"
    /\ UNCHANGED <<inputs, facts, possible_recipes, nearly_possible_recipes,
                   evals, result, query, earlier>>

\* one iteration of can_prepare_recipe's loop over self.rules
CanPrepareRecipe ==
    /\ pc = "loop"
    /\ idx \in DOMAIN rules
    /\ LET recipe == rules[idx]
           e == Evaluate(recipe, possible_recipes, locals)
       IN IF Contains(possible_recipes, recipe.name)
          THEN UNCHANGED <<possible_recipes, facts, nearly_possible_recipes, evals>>
          ELSE /\ evals' = Append(evals, e)
               /\ IF e.is_met
                  THEN /\ possible_recipes' = AddPossible(possible_recipes, recipe.name)
                       /\ facts' = Declare(facts, SuggestedRecipe(recipe.name))
                       /\ UNCHANGED nearly_possible_recipes
                  ELSE /\ nearly_possible_recipes' =
                            IF AnyMissing(e.missing)
                            THEN DictSet(nearly_possible_recipes, recipe.name, e.missing)
                            ELSE nearly_possible_recipes
                       /\ UNCHANGED <<possible_recipes, facts>>
    /\ idx' = idx + 1
    /\ pc' = IF idx = Len(rules) THEN "run" ELSE "loop"
    /\ UNCHANGED <<inputs, agenda, locals, fired, result, query, earlier>>

\* a transform_rules_to_facts that takes the rules out of self.rules as it
\* declares their conditions
TransformConsumingRules ==
    /\ pc = "run"
    /\ agenda # {}
    /\ NextActivation(agenda) = "transform_rules_to_facts"
    /\ agenda' = agenda \ {"transform_rules_to_facts"}
    /\ facts' = DeclareAll(facts, AllConditionFacts(rules))
    /\ rules' = <<>>
    /\ UNCHANGED <<ingredients, made_recipes, category, time, possible_recipes,
                   nearly_possible_recipes, locals, idx, evals, fired, pc, result,
                   query, earlier>>

\* engine.run() fires transform_rules_to_facts
TransformRulesToFacts ==
    /\ pc = "run"
    /\ agenda # {}
    /\ NextActivation(agenda) = "transform_rules_to_facts"
    /\ agenda' = agenda \ {"transform_rules_to_facts"}
    /\ facts' = DeclareAll(facts, AllConditionFacts(rules))
    /\ UNCHANGED <<inputs, possible_recipes, nearly_possible_recipes, locals,
                   idx, evals, fired, pc, result, query, earlier>>

\* the agenda is empty: engine.run() returns, find_recipes builds its result
Return ==
    /\ pc = "run"
    /\ agenda = {}
    /\ result' = [new_recipes |-> NewRecipes(possible_recipes, made_recipes),
                  nearly_possible |->
                      Truncate(NearlyPossibleFiltered(nearly_possible_recipes,
                                                      possible_recipes, made_recipes))]
    /\ pc' = "done"
    /\ UNCHANGED <<inputs, facts, agenda, possible_recipes, nearly_possible_recipes,
                   locals, idx, evals, fired, query, earlier>>

\* the caller runs the same query again
CallAgain ==
    /\ pc = "done"
    /\ query < MaxQueries
    /\ earlier' = Append(earlier, result)
    /\ query' = query + 1
    /\ pc' = "call"
    /\ UNCHANGED <<inputs, facts, agenda, possible_recipes, nearly_possible_recipes,
                   locals, idx, evals, fired, result>>

Next ==
    \/ Call
    \/ FireCanPrepare
    \/ CanPrepareRecipe
    \/ TransformRulesToFacts
    \/ Return

NextTwice == Next \/ CallAgain

\* ------------------------------------------------------------------------
\* Inputs
\* ------------------------------------------------------------------------
\* the conditions dict of a recipe; a key is present iff its value is given
Conditions(ing, rec, tm, cat) ==
    LET dom == (IF ing # <<>> THEN {"ingredients"} ELSE {})
               \cup (IF rec # <<>> THEN {"recipes"} ELSE {})
               \cup (IF tm # None THEN {"time"} ELSE {})
               \cup (IF cat # None THEN {"category"} ELSE {})
    IN [k \in dom |-> CASE k = "ingredients" -> ing
                        [] k = "recipes" -> rec
                        [] k = "time" -> tm
                        [] OTHER -> cat]

ConditionsOf(ings, recs, tms, cats) ==
    {Conditions(ing, rec, tm, cat) : ing \in ings, rec \in recs, tm \in tms, cat \in cats}

\* the catalogs of 1..n recipes named 1..n, with conditions from conds
Catalogs(n, conds) ==
    UNION {{[i \in 1..k |-> [name |-> i, conditions |-> c[i]]] : c \in [1..k -> conds]}
           : k \in 1..n}

\* the ascending lists of at most two names of S
Lists(S) == {SortedSeq(T) : T \in {U \in SUBSET S : Cardinality(U) <= 2}}

\* the ascending lists of at most one name of S
ShortLists(S) == {SortedSeq(T) : T \in {U \in SUBSET S : Cardinality(U) <= 1}}

\* the lists <<1>>, <<1, 2>>, ..., <<1, ..., n>>
Prefixes(n) == {[i \in 1..k |-> i] : k \in 1..n}

InitOf(catalogs, ingredientLists, madeLists, categories, times) ==
    /\ rules \in catalogs
    /\ ingredients \in ingredientLists
    /\ made_recipes \in madeLists
    /\ category \in categories
    /\ time \in times
    /\ facts = <<>>
    /\ agenda = {}
    /\ possible_recipes = <<>>
    /\ nearly_possible_recipes = <<>>
    /\ locals = NoLocals
    /\ idx = 0
    /\ evals = <<>>
    /\ fired = 0
    /\ pc = "call"
    /\ result = NoResult
    /\ query = 1
    /\ earlier = <<>>

\* sub-recipe closure: recipes that need ingredient 1 or not, with up to two
\* sub-recipes each, and up to two recipes made before
Init ==
    InitOf(Catalogs(MaxRecipes, ConditionsOf({<<>>, <<1>>}, Lists(Names), {None}, {None})),
           {<<>>, <<1>>}, Lists(Names), {None}, {None})

Spec == Init /\ [][Next]_vars

\* time and category filters: a recipe needs nothing, ingredient 1 or recipe 1
InitFilter ==
    InitOf(Catalogs(MaxRecipes,
                    ConditionsOf({<<>>, <<1>>}, {<<>>}, {None} \cup 1..MaxTime, {None, 1})
                    \cup ConditionsOf({<<>>}, {<<1>>}, {None} \cup 1..MaxTime, {None, 1})),
           {<<>>, <<1>>}, {<<>>}, {None, 1, 2}, {None} \cup 0..MaxTime)

SpecFilter == InitFilter /\ [][Next]_vars

\* ranking of the near misses: long catalogs of recipes that need ingredients
\* 1..k (so that up to NumIngredients are missing) or only recipe 1
InitRank ==
    InitOf(Catalogs(MaxRankRecipes,
                    ConditionsOf(Prefixes(NumIngredients), {<<>>}, {None}, {None})
                    \cup ConditionsOf({<<>>}, {<<1>>}, {None}, {None})),
           {<<>>, <<1>>}, {<<>>}, {None}, {None})

SpecRank == InitRank /\ [][Next]_vars

\* small catalogs with at most one sub-recipe each
InitSmall ==
    InitOf(Catalogs(MaxRecipes, ConditionsOf({<<>>, <<1>>}, ShortLists(Names), {None}, {None})),
           {<<>>, <<1>>}, ShortLists(Names), {None}, {None})

\* the same query run MaxQueries times
SpecTwice == InitSmall /\ [][NextTwice]_vars

\* chains and cycles of sub-recipes: recipes that need at most one sub-recipe
\* and no ingredient
InitLive ==
    InitOf(Catalogs(MaxRecipes, ConditionsOf({<<>>}, ShortLists(Names), {None}, {None})),
           {<<>>}, ShortLists(Names), {None}, {None})

\* find_recipes is synchronous: the engine always takes its next step
LiveSpec == InitLive /\ [][Next]_vars /\ WF_vars(Next)

\* catalogs whose lists repeat a name: ingredient 1 up to three times,
\* sub-recipe 2 twice
InitDup ==
    InitOf(Catalogs(MaxRecipes,
                    ConditionsOf({<<>>, <<1>>, <<1, 1>>, <<1, 1, 1>>}, {<<>>, <<2, 2>>},
                                 {None}, {None})),
           {<<>>, <<1>>}, {<<>>, <<2>>}, {None}, {None})

SpecDup == InitDup /\ [][Next]_vars

\* ------------------------------------------------------------------------
\* find_recipes as a function of the catalog and the arguments
\* ------------------------------------------------------------------------
\* the whole loop of can_prepare_recipe over the rules rs
RECURSIVE Pass(_, _, _, _)
Pass(rs, possible, nearly, loc) ==
    IF rs = <<>> THEN [possible_recipes |-> possible, nearly_possible_recipes |-> nearly]
    ELSE LET recipe == Head(rs)
             e == Evaluate(recipe, possible, loc)
         IN IF Contains(possible, recipe.name)
            THEN Pass(Tail(rs), possible, nearly, loc)
            ELSE IF e.is_met
            THEN Pass(Tail(rs), AddPossible(possible, recipe.name), nearly, loc)
            ELSE IF AnyMissing(e.missing)
            THEN Pass(Tail(rs), possible, DictSet(nearly, recipe.name, e.missing), loc)
            ELSE Pass(Tail(rs), possible, nearly, loc)

\* the value find_recipes returns for a catalog rs
FindRecipes(rs, ings, made, cat, tm) ==
    LET loc == [available_ingredients |-> SeqToSet(ings),
                prepared_recipes |-> SeqToSet(made),
                available_time |-> IF Truthy(tm) THEN tm ELSE None,
                desired_category |-> IF Truthy(cat) THEN cat ELSE None]
        engine == Pass(rs, RecipeEngineInit.possible_recipes,
                       RecipeEngineInit.nearly_possible_recipes, loc)
    IN [new_recipes |-> NewRecipes(engine.possible_recipes, made),
        nearly_possible |->
            Truncate(NearlyPossibleFiltered(engine.nearly_possible_recipes,
                                            engine.possible_recipes, made))]

\* ------------------------------------------------------------------------
\* Properties
\* ------------------------------------------------------------------------
Done == pc = "done"

\* the names a list-valued condition of a recipe requires
Required(recipe, key) ==
    IF key \in DOMAIN recipe.conditions THEN SeqToSet(recipe.conditions[key]) ELSE {}

Made == SeqToSet(made_recipes)

Possible == SeqToSet(possible_recipes)

\* the time check as the specification states it: the budget is absent, the
\* recipe has no time condition, or its time is within the budget
TimeCheck(recipe) ==
    \/ time = None
    \/ "time" \notin DOMAIN recipe.conditions
    \/ recipe.conditions.time <= time

\* the category check as the specification states it
CategoryCheck(recipe) ==
    \/ category = None
    \/ "category" \notin DOMAIN recipe.conditions
    \/ recipe.conditions.category = category

\* every condition of the recipe holds in the final state of the engine
Satisfied(recipe) ==
    /\ Required(recipe, "ingredients") \subseteq SeqToSet(ingredients)
    /\ Required(recipe, "recipes") \subseteq (Possible \cup Made)
    /\ TimeCheck(recipe)
    /\ CategoryCheck(recipe)

\* C1 (transitivity, for every catalog order): when find_recipes has returned,
\* a recipe A outside made_recipes that requires a sub-recipe B, with B and A's
\* other sub-recipes in possible_recipes or made_recipes, all of A's
\* ingredients available and A's time and category checks passed, is in
\* new_recipes, wherever A stands in the catalog.
C1_Transitivity ==
    Done =>
        \A a \in DOMAIN rules :
            ( /\ Required(rules[a], "recipes") # {}
              /\ Satisfied(rules[a])
              /\ rules[a].name \notin Made )
            => Contains(result.new_recipes, rules[a].name)

\* C2 (time check): for every integer time budget t passed to find_recipes,
\* t = 0 included, a recipe with a time condition greater than t is not in
\* new_recipes.
C2_TimeCheck ==
    (Done /\ time # None) =>
        \A r \in DOMAIN rules :
            ( /\ "time" \in DOMAIN rules[r].conditions
              /\ rules[r].conditions.time > time )
            => ~Contains(result.new_recipes, rules[r].name)

\* C3 (near-miss entries reflect the final state): when the engine has
\* finished, the missing sub-recipes recorded for a recipe that is not in
\* possible_recipes are its required sub-recipes minus the final
\* possible_recipes and made_recipes.
C3_NearMissFinal ==
    Done =>
        \A i \in DOMAIN nearly_possible_recipes :
            LET item == nearly_possible_recipes[i]
            IN item.key \notin Possible =>
                   SeqToSet(item.value.recipes)
                       = Required(rules[item.key], "recipes") \ (Possible \cup Made)

\* C4 (already-prepared recipes satisfy sub-recipe requirements): when
\* find_recipes has returned, a recipe A outside made_recipes that requires a
\* recipe of made_recipes, and whose sub-recipes are all in made_recipes or in
\* possible_recipes, whose ingredients are all available and whose time and
\* category checks hold, is in new_recipes.
C4_MadeSatisfies ==
    Done =>
        \A a \in DOMAIN rules :
            ( /\ Required(rules[a], "recipes") \cap Made # {}
              /\ Satisfied(rules[a])
              /\ rules[a].name \notin Made )
            => Contains(result.new_recipes, rules[a].name)

\* C5 (already-prepared exclusion): no name of made_recipes is ever in the
\* returned new_recipes.
C5_MadeExcluded ==
    \A i \in DOMAIN result.new_recipes : result.new_recipes[i] \notin Made

\* a query has returned in which a made recipe was itself proven preparable,
\* next to a recipe that is new
C5_Witness ==
    /\ Done
    /\ Made \cap Possible # {}
    /\ result.new_recipes # <<>>

\* C6 (near-miss emptiness rule): a recipe evaluated with no missing
\* ingredient and no missing sub-recipe, which is not met (so it fails on the
\* time or the category check alone), has no entry in nearly_possible_recipes
\* and none in the returned nearly_possible, in every state of the query.
C6_NearMissEmptiness ==
    \A i \in DOMAIN evals :
        ( /\ ~evals[i].is_met
          /\ evals[i].missing.ingredients = <<>>
          /\ evals[i].missing.recipes = <<>> )
        => /\ evals[i].recipe_name \notin DictKeys(nearly_possible_recipes)
           /\ evals[i].recipe_name \notin DictKeys(result.nearly_possible)

\* a query has returned in which one recipe failed on time or category alone
\* and another one was recorded as a near miss
C6_Witness ==
    /\ Done
    /\ nearly_possible_recipes # <<>>
    /\ \E i \in DOMAIN evals :
           /\ ~evals[i].is_met
           /\ evals[i].missing.ingredients = <<>>
           /\ evals[i].missing.recipes = <<>>

\* C7 (ranking bound): the returned nearly_possible has at most 4 entries,
\* and each belongs to a recipe recorded with 1 or 2 missing ingredients.
C7_RankingBound ==
    /\ Len(result.nearly_possible) <= 4
    /\ \A i \in DOMAIN result.nearly_possible :
           LET recipe == result.nearly_possible[i].key
           IN /\ recipe \in DictKeys(nearly_possible_recipes)
              /\ Len(DictGet(nearly_possible_recipes, recipe).ingredients) \in {1, 2}

\* a query has returned 4 near misses out of more than 4 recorded recipes with
\* 1 or 2 missing ingredients
C7_Witness ==
    /\ Done
    /\ Len(result.nearly_possible) = 4
    /\ Cardinality({i \in DOMAIN nearly_possible_recipes :
                       Len(nearly_possible_recipes[i].value.ingredients) \in {1, 2}}) > 4

\* the recipes a and b of the catalog require each other and neither was made
Cycle(a, b) ==
    /\ a # b
    /\ rules[b].name \in Required(rules[a], "recipes")
    /\ rules[a].name \in Required(rules[b], "recipes")
    /\ rules[a].name \notin Made
    /\ rules[b].name \notin Made

C9_Determinism ==
    Done => \A i \in DOMAIN earlier : earlier[i] = result

\* the second run of a query has returned a new recipe and a near miss
C9_Witness ==
    /\ Done
    /\ query = 2
    /\ result.new_recipes # <<>>
    /\ result.nearly_possible # <<>>

\* C10 (monotonicity): in every step of a query possible_recipes keeps its
\* elements at their positions, and it never holds a name twice.
C10_Monotonic ==
    [][ /\ Len(possible_recipes') >= Len(possible_recipes)
        /\ \A i \in DOMAIN possible_recipes : possible_recipes'[i] = possible_recipes[i]
        /\ \A i, j \in DOMAIN possible_recipes' :
               i # j => possible_recipes'[i] # possible_recipes'[j] ]_vars

\* two recipes have been appended to possible_recipes
C10_Witness == Len(possible_recipes) >= 2

\* the recipe of the catalog with the given name
RecipeNamed(name) == rules[CHOOSE k \in DOMAIN rules : rules[k].name = name]

\* every sub-recipe that the recipe at position i of the list requires is in
\* made_recipes or stands before position i
DependencyOrdered(list, i) ==
    \A s \in Required(RecipeNamed(list[i]), "recipes") :
        s \in Made \/ \E j \in 1..(i - 1) : list[j] = s

\* C11 (soundness and dependency order of the discovery log): in every state,
\* each recipe of possible_recipes has all its required ingredients among the
\* available ones, and each of its required sub-recipes is in made_recipes or
\* stands earlier in possible_recipes; the returned new_recipes lists every
\* sub-recipe that was not made before the recipes that need it.
C11_SoundOrder ==
    /\ \A i \in DOMAIN possible_recipes :
           /\ Required(RecipeNamed(possible_recipes[i]), "ingredients")
                  \subseteq SeqToSet(ingredients)
           /\ DependencyOrdered(possible_recipes, i)
    /\ \A i \in DOMAIN result.new_recipes : DependencyOrdered(result.new_recipes, i)

\* a query has returned a recipe after a sub-recipe it needs, and that recipe
\* needs an ingredient too
C11_Witness ==
    /\ Done
    /\ \E i, j \in DOMAIN result.new_recipes :
           /\ j < i
           /\ result.new_recipes[j]
                  \in Required(RecipeNamed(result.new_recipes[i]), "recipes")
           /\ Required(RecipeNamed(result.new_recipes[i]), "ingredients") # {}

\* the recipe is neither proven preparable nor made, and 1 or 2 entries of its
\* ingredient list are not available
PassesFilter(recipe) ==
    /\ recipe.name \notin Possible
    /\ recipe.name \notin Made
    /\ "ingredients" \in DOMAIN recipe.conditions
    /\ Len(SelectSeq(recipe.conditions.ingredients,
                     LAMBDA ing : ing \notin SeqToSet(ingredients))) \in {1, 2}

\* the names of the recipes that pass the filter, in catalog order
Qualifying ==
    LET kept == SelectSeq(rules, PassesFilter)
    IN [i \in DOMAIN kept |-> kept[i].name]

C13_Disjoint ==
    \A i \in DOMAIN result.nearly_possible :
        /\ ~Contains(result.new_recipes, result.nearly_possible[i].key)
        /\ result.nearly_possible[i].key \notin Made

\* a query has returned; a made recipe was recorded with one missing
\* ingredient, and another recipe is new
C13_Witness ==
    /\ Done
    /\ result.new_recipes # <<>>
    /\ \E i \in DOMAIN nearly_possible_recipes :
           /\ nearly_possible_recipes[i].key \in Made
           /\ Len(nearly_possible_recipes[i].value.ingredients) = 1

\* the list without the repetitions of a name
RECURSIVE Distinct(_)
Distinct(list) ==
    IF list = <<>> THEN <<>>
    ELSE LET front == Distinct(SubSeq(list, 1, Len(list) - 1))
             last == list[Len(list)]
         IN IF Contains(front, last) THEN front ELSE Append(front, last)

\* the catalog with the repetitions removed from every ingredient list and
\* every sub-recipe list
WithoutRepetitions(rs) ==
    [i \in DOMAIN rs |->
        [name |-> rs[i].name,
         conditions |->
             [k \in DOMAIN rs[i].conditions |->
                 IF k \in {"ingredients", "recipes"}
                 THEN Distinct(rs[i].conditions[k])
                 ELSE rs[i].conditions[k]]]]

\* the stepwise engine and the function agree on the result
ResultIsFindRecipes ==
    Done => result = FindRecipes(rules, ingredients, made_recipes, category, time)

\* C14 (duplicates collapse): a catalog whose ingredient or sub-recipe lists
\* repeat a name yields the same new_recipes and the same set of
\* nearly_possible keys as the catalog with the repetitions removed.
C14_DuplicatesCollapse ==
    Done =>
        LET plain == FindRecipes(WithoutRepetitions(rules), ingredients,
                                 made_recipes, category, time)
        IN /\ result.new_recipes = plain.new_recipes
           /\ DictKeys(result.nearly_possible) = DictKeys(plain.nearly_possible)

\* C15 (inputs are left unchanged): no step of a query changes the loaded
\* catalog (the order of the recipes and their conditions), the ingredients or
\* made_recipes.
C15_InputsUnchanged ==
    [][ /\ rules' = rules
        /\ ingredients' = ingredients
        /\ made_recipes' = made_recipes ]_vars

\* a query has returned after the engine appended to possible_recipes, recorded
\* a near miss and declared the conditions of the catalog as facts
C15_Witness ==
    /\ Done
    /\ possible_recipes # <<>>
    /\ nearly_possible_recipes # <<>>
    /\ \E i \in DOMAIN facts : facts[i].cls = "Condition"
    /\ made_recipes # <<>>
    /\ ingredients # <<>>

====
